---- MODULE Spec2Model ----
(***************************************************************************)
(* Model of check_model.py: the SCRFD face-detector post-processing        *)
(* pipeline (letterbox preprocessing, proposal decoding, greedy NMS).      *)
(*                                                                         *)
(* Numbers.  Scores are kept in tenths (9 stands for 0.9), so that         *)
(* CONF_THRESHOLD = 0.5 is the integer 5.  Box coordinates and box         *)
(* distances are integers, on which the float arithmetic of the source is  *)
(* exact.  A ratio or threshold is a pair <<num, den>> with den > 0.       *)
(* Python and numpy index from 0; sequences here index from 1, so the      *)
(* proposal with original index k of the source is element k+1.            *)
(***************************************************************************)
EXTENDS Integers, Sequences, FiniteSets, TLC

VARIABLES
    pc,              \* position of the program
    raised,          \* "none", or the exception that ended the call
    img,             \* <<img_h, img_w>>: shape of the image given to preprocess
    target,          \* <<target_height, target_width>>
    canvas,          \* the canvas preprocess returns
    ratio,           \* the ratio preprocess returns, <<num, den>>
    new_size,        \* preprocess: <<new_w, new_h>>, the size the image is resized to
    img_width,       \* decode_proposals argument
    img_height,      \* decode_proposals argument
    outputs,         \* the nine raw tensors given to decode_proposals
    proposals,       \* the list decode_proposals returned / nms is called on
    NMS_THRESHOLD,   \* the configured IoU threshold, <<num, den>>
    order,           \* nms: indices still to process
    keep_indices,    \* nms: indices kept so far
    final_faces,     \* the list nms returned
    argsorted,       \* nms: order as first computed, scores.argsort()[::-1]
    first            \* the completed nms calls a caller remembers, oldest first

vars == <<pc, raised, img, target, canvas, ratio, new_size, img_width, img_height,
          outputs, proposals, NMS_THRESHOLD, order, keep_indices,
          final_faces, argsorted, first>>

lbVars  == <<img, target, canvas, ratio, new_size>>
decVars == <<img_width, img_height, outputs>>

None == "none"

\* ------------------------------------------------------------------------
\* Bounds of the model
\* ------------------------------------------------------------------------
MaxProposals == 4
MaxHot == 2
MaxSide == 4

\* ------------------------------------------------------------------------
\* Program constants
\* ------------------------------------------------------------------------
CONF_THRESHOLD == 5            \* 0.5, in tenths
PadValue == 114
DefaultNmsThreshold == <<2, 5>>  \* NMS_THRESHOLD = 0.4

Max(a, b) == IF a >= b THEN a ELSE b
Min(a, b) == IF a <= b THEN a ELSE b

\* ------------------------------------------------------------------------
\* preprocess_image_topleft
\* ------------------------------------------------------------------------
\* min(target_width / img_w, target_height / img_h), as a fraction
ScaleRatio(img_h, img_w, target_height, target_width) ==
    IF target_width * img_h <= target_height * img_w
    THEN <<target_width, img_w>>
    ELSE <<target_height, img_h>>

\* int(n * ratio), for n >= 0
Scaled(n, r) == (n * r[1]) \div r[2]

\* np.full((target_height, target_width, 3), 114) with the resized image
\* written over canvas[0:new_h, 0:new_w]
Pasted(target_height, target_width, new_h, new_w) ==
    [p \in (0..(target_height - 1)) \X (0..(target_width - 1)) |->
        IF p[1] < new_h /\ p[2] < new_w THEN "image" ELSE PadValue]

\* main, line 110.  cv2.resize raises cv2.error for a size with a zero side;
\* the assignment into the canvas raises ValueError if the resized image
\* does not fit the slice.
Preprocess ==
    /\ pc = "preprocess"
    /\ LET r     == ScaleRatio(img[1], img[2], target[1], target[2])
           new_w == Scaled(img[2], r)
           new_h == Scaled(img[1], r)
       IN  /\ new_size' = <<new_w, new_h>>
           /\ IF new_w = 0 \/ new_h = 0
              THEN /\ raised' = "cv2.error"
                   /\ pc' = "crashed"
                   /\ UNCHANGED <<canvas, ratio>>
              ELSE IF new_w > target[2] \/ new_h > target[1]
              THEN /\ raised' = "ValueError"
                   /\ pc' = "crashed"
                   /\ UNCHANGED <<canvas, ratio>>
              ELSE /\ canvas' = Pasted(target[1], target[2], new_h, new_w)
                   /\ ratio' = r
                   /\ pc' = "preprocessed"
                   /\ UNCHANGED raised
    /\ UNCHANGED <<img, target, proposals, NMS_THRESHOLD, order, keep_indices,
                   final_faces, argsorted, first>>
    /\ UNCHANGED decVars

\* Images and targets of positive height and width
InitLetterbox ==
    /\ pc = "preprocess"
    /\ raised = None
    /\ img \in (1..MaxSide) \X (1..MaxSide)
    /\ target \in (1..MaxSide) \X (1..MaxSide)
    /\ canvas = None /\ ratio = None /\ new_size = None
    /\ img_width = None /\ img_height = None /\ outputs = None
    /\ proposals = <<>>
    /\ NMS_THRESHOLD = DefaultNmsThreshold
    /\ order = <<>>
    /\ keep_indices = <<>>
    /\ argsorted = <<>>
    /\ final_faces = None
    /\ first = <<>>

NextLetterbox == Preprocess

SpecLetterbox == InitLetterbox /\ [][NextLetterbox]_vars

\* ------------------------------------------------------------------------
\* Inputs of nms
\* ------------------------------------------------------------------------
\* Proposals nms is tried on.  Boxes are (x1, y1, x2, y2): four that overlap
\* one another to different degrees, the first of them held by two
\* proposals, a zero-area box held by two proposals, and one whose x2 lies
\* left of its x1 (a negative left or right distance decodes to such a box).
\* Scores are in tenths; some proposals share one.
NoKps == <<>>

Proposal(b, s) == [bbox |-> b, score |-> s, kps |-> NoKps]

ProposalSet ==
    { Proposal(<<0, 0, 10, 1>>, 9), Proposal(<<0, 0, 5, 1>>, 9),
      Proposal(<<0, 0, 3, 1>>, 8),  Proposal(<<2, 0, 5, 1>>, 8),
      Proposal(<<4, 4, 4, 4>>, 7),  Proposal(<<4, 4, 4, 4>>, 6),
      Proposal(<<6, 0, 2, 1>>, 8),  Proposal(<<0, 0, 10, 1>>, 7) }

\* The lists of at most MaxProposals different proposals, in every order
ProposalLists ==
    UNION { { l \in [1..n -> ProposalSet] : \A a, b \in 1..n : l[a] = l[b] => a = b }
            : n \in 0..MaxProposals }

Thresholds == { <<0, 1>>, <<2, 5>>, <<1, 2>>, <<1, 1>> }

\* ------------------------------------------------------------------------
\* nms
\* ------------------------------------------------------------------------
\* (boxes[i,2] - boxes[i,0]) * (boxes[i,3] - boxes[i,1])
Area(b) == (b[3] - b[1]) * (b[4] - b[2])

\* w * h, each clamped at 0
Intersection(bi, bj) ==
    LET xx1 == Max(bi[1], bj[1])
        yy1 == Max(bi[2], bj[2])
        xx2 == Min(bi[3], bj[3])
        yy2 == Min(bi[4], bj[4])
        w   == Max(0, xx2 - xx1)
        h   == Max(0, yy2 - yy1)
    IN  w * h

\* Union with the intersection counted twice
UnionDoubleCounted(bi, bj) == Area(bi) + Area(bj)

\* area + area of the other - intersection
Union(bi, bj) == Area(bi) + Area(bj) - Intersection(bi, bj)

\* OvrLeq with the comparison turned round: ovr >= NMS_THRESHOLD
OvrGeq(bi, bj, t) ==
    LET inter == Intersection(bi, bj)
        union == Area(bi) + Area(bj) - inter
    IN  IF union = 0 THEN FALSE
        ELSE IF union > 0 THEN inter * t[2] >= t[1] * union
        ELSE inter * t[2] <= t[1] * union

\* ovr <= NMS_THRESHOLD for ovr = intersection / union in IEEE arithmetic:
\* 0/0 is NaN and x/0 is +inf for x > 0 (numpy warns and goes on), and both
\* compare false against any threshold; a negative union flips the sign.
OvrLeq(bi, bj, t) ==
    LET inter == Intersection(bi, bj)
        union == Union(bi, bj)
    IN  IF union = 0 THEN FALSE
        ELSE IF union > 0 THEN inter * t[2] <= t[1] * union
        ELSE inter * t[2] >= t[1] * union

Reverse(s) == [k \in 1..Len(s) |-> s[Len(s) + 1 - k]]

\* The ascending orders of the indices in S: a lowest-scored index first,
\* any of them when several share the lowest score.
RECURSIVE Ascending(_, _)
Ascending(props, S) ==
    IF S = {} THEN { <<>> }
    ELSE LET lowest == { i \in S : \A j \in S : props[i].score <= props[j].score }
         IN  UNION { { <<i>> \o rest : rest \in Ascending(props, S \ {i}) }
                     : i \in lowest }

\* scores.argsort(): the indices in ascending order of score.  The default
\* kind is an unstable sort, so the order of equal scores is whatever the
\* build produces.
Argsort(props) == Ascending(props, 1..Len(props))

\* Survivors with the positions taken for the indices: order = inds + 1
SurvivorsByPosition(props, ord, t) ==
    LET i == ord[1]
        Keeps(q) == OvrLeq(props[i].bbox, props[ord[q]].bbox, t)
    IN  SelectSeq([k \in 1..(Len(ord) - 1) |-> k + 1], Keeps)

\* order[inds + 1] with inds = np.where(ovr <= NMS_THRESHOLD)[0]
Survivors(props, ord, t) ==
    LET i == ord[1]
        Keeps(j) == OvrLeq(props[i].bbox, props[j].bbox, t)
    IN  SelectSeq(Tail(ord), Keeps)

\* [proposals[i] for i in keep_indices]
Gather(props, keep) == [k \in 1..Len(keep) |-> props[keep[k]]]

\* nms is entered: the empty list returns at once, otherwise the indices are
\* sorted.  A second call on the same list with another threshold sorts the
\* same scores, and so gets the same order.
NmsEnter ==
    /\ pc = "nms"
    /\ IF proposals = <<>>
       THEN /\ final_faces' = <<>>
            /\ pc' = "returned"
            /\ UNCHANGED <<order, keep_indices, argsorted>>
       ELSE /\ \E o \in Argsort(proposals) :
                 /\ (first # <<>> /\ first[1].proposals = proposals)
                        => Reverse(o) = first[1].argsorted
                 /\ order' = Reverse(o)
                 /\ argsorted' = Reverse(o)
            /\ keep_indices' = <<>>
            /\ pc' = "loop"
            /\ UNCHANGED final_faces
    /\ UNCHANGED <<raised, proposals, NMS_THRESHOLD, first>>
    /\ UNCHANGED lbVars /\ UNCHANGED decVars

\* one pass of the while loop
NmsStep ==
    /\ pc = "loop"
    /\ order # <<>>
    /\ keep_indices' = Append(keep_indices, order[1])
    /\ order' = Survivors(proposals, order, NMS_THRESHOLD)
    /\ UNCHANGED <<pc, raised, proposals, NMS_THRESHOLD, final_faces, argsorted, first>>
    /\ UNCHANGED lbVars /\ UNCHANGED decVars

NmsReturn ==
    /\ pc = "loop"
    /\ order = <<>>
    /\ final_faces' = Gather(proposals, keep_indices)
    /\ pc' = "returned"
    /\ UNCHANGED <<raised, proposals, NMS_THRESHOLD, order, keep_indices, argsorted, first>>
    /\ UNCHANGED lbVars /\ UNCHANGED decVars

\* The call that has returned, as a caller that calls nms again remembers it.
Completed ==
    [proposals |-> proposals, threshold |-> NMS_THRESHOLD,
     argsorted |-> IF proposals = <<>> THEN <<>> ELSE argsorted,
     final_faces |-> final_faces]

\* nms is called again, on the list it returned
NmsOnOutput ==
    /\ pc = "returned"
    /\ first = <<>>
    /\ first' = <<Completed>>
    /\ proposals' = final_faces
    /\ pc' = "nms"
    /\ UNCHANGED <<raised, NMS_THRESHOLD, order, keep_indices, final_faces, argsorted>>
    /\ UNCHANGED lbVars /\ UNCHANGED decVars

\* nms is called again on the same list, NMS_THRESHOLD raised to t2
NmsRaisedThreshold ==
    /\ pc = "returned"
    /\ first = <<>>
    /\ \E t2 \in Thresholds :
         /\ NMS_THRESHOLD[1] * t2[2] < t2[1] * NMS_THRESHOLD[2]
         /\ NMS_THRESHOLD' = t2
    /\ first' = <<Completed>>
    /\ pc' = "nms"
    /\ UNCHANGED <<raised, proposals, order, keep_indices, final_faces, argsorted>>
    /\ UNCHANGED lbVars /\ UNCHANGED decVars

InitNms ==
    /\ pc = "nms"
    /\ raised = None
    /\ img = None /\ target = None /\ canvas = None /\ ratio = None
    /\ new_size = None
    /\ img_width = None /\ img_height = None /\ outputs = None
    /\ proposals \in ProposalLists
    /\ NMS_THRESHOLD \in Thresholds
    /\ order = <<>>
    /\ keep_indices = <<>>
    /\ argsorted = <<>>
    /\ final_faces = None
    /\ first = <<>>

NextNms == NmsEnter \/ NmsStep \/ NmsReturn \/ NmsOnOutput \/ NmsRaisedThreshold

SpecNms == InitNms /\ [][NextNms]_vars

\* ------------------------------------------------------------------------
\* decode_proposals
\* ------------------------------------------------------------------------
strides == <<8, 16, 32>>

\* int(np.ceil(img_height / stride))
CeilDiv(n, stride) == (n + stride - 1) \div stride

feature_height(h, stride) == CeilDiv(h, stride)
feature_width(w, stride)  == CeilDiv(w, stride)

\* The (y, x, anchor_idx) of the three nested loops, in the order the loops
\* visit them
LoopCells(fh, fw) ==
    [k \in 1..(fh * fw * 2) |->
        <<(k - 1) \div (fw * 2), ((k - 1) % (fw * 2)) \div 2, (k - 1) % 2>>]

\* FlatIndex with the anchors of a row of cells left out of the row's length
FlatIndexShortRow(y, x, anchor_idx, fw) == (y * fw) + (x * 2) + anchor_idx

\* idx = (y * feature_width * 2) + (x * 2) + anchor_idx
FlatIndex(y, x, anchor_idx, fw) == (y * fw * 2) + (x * 2) + anchor_idx

\* (x + 0.5) * stride; the strides are even
AnchorCentre(x, stride) == ((2 * x + 1) * stride) \div 2

\* DecodeBox with the distances taken as pixels, not multiplied by the stride
DecodeBoxUnscaled(box_pred, cx, cy, stride) ==
    <<cx - box_pred[1], cy - box_pred[2], cx + box_pred[3], cy + box_pred[4]>>

\* l, t, r, b = box_pred * stride;
\* bbox = [anchor_cx - l, anchor_cy - t, anchor_cx + r, anchor_cy + b]
DecodeBox(box_pred, cx, cy, stride) ==
    <<cx - box_pred[1] * stride, cy - box_pred[2] * stride,
      cx + box_pred[3] * stride, cy + box_pred[4] * stride>>

\* decoded_kps[k] = [anchor_cx + kps_pred[2k] * stride,
\*                   anchor_cy + kps_pred[2k+1] * stride], k = 0..4
DecodeKps(kps_pred, cx, cy, stride) ==
    [k \in 1..5 |-> <<cx + kps_pred[2 * k - 1] * stride,
                      cy + kps_pred[2 * k] * stride>>]

\* Skipped with the score at the threshold skipped as well
SkippedAtThreshold(score) == score <= CONF_THRESHOLD

\* score < CONF_THRESHOLD: continue
Skipped(score) == score < CONF_THRESHOLD

\* A squeezed tensor is a function on the rows 0..n-1.  tensor[idx] gives row
\* idx when it exists.  Beyond the last row it raises IndexError; and a tensor
\* of a single row is squeezed to that row alone, on which the indexing (or
\* the unpacking of what it gives) raises as well.
Readable(tensor, idx) ==
    /\ idx \in DOMAIN tensor
    /\ Cardinality(DOMAIN tensor) > 1

\* The proposal one pass of the innermost loop appends
DecodeCell(outs, i, cell, fw) ==
    LET stride == strides[i]
        idx    == FlatIndex(cell[1], cell[2], cell[3], fw)
        cx     == AnchorCentre(cell[2], stride)
        cy     == AnchorCentre(cell[1], stride)
    IN  [bbox  |-> DecodeBox(outs[i + 3][idx], cx, cy, stride),
         score |-> outs[i][idx],
         kps   |-> DecodeKps(outs[i + 6][idx], cx, cy, stride)]

\* A pass of the innermost loop raises: a read of a row that is not there
CellRaises(outs, i, cell, fw) ==
    LET idx == FlatIndex(cell[1], cell[2], cell[3], fw)
    IN  \/ ~Readable(outs[i], idx)
        \/ /\ ~Skipped(outs[i][idx])
           /\ (~Readable(outs[i + 3], idx) \/ ~Readable(outs[i + 6], idx))

\* The cells of stride i whose pass appends a proposal, in loop order
PassingCells(outs, i, w, h) ==
    LET fw == feature_width(w, strides[i])
        fh == feature_height(h, strides[i])
        Passes(cell) == ~Skipped(outs[i][FlatIndex(cell[1], cell[2], cell[3], fw)])
    IN  SelectSeq(LoopCells(fh, fw), Passes)

\* What the loop over stride i appends
DecodeStride(outs, i, w, h) ==
    LET fw    == feature_width(w, strides[i])
        cells == PassingCells(outs, i, w, h)
    IN  [k \in 1..Len(cells) |-> DecodeCell(outs, i, cells[k], fw)]

\* Some pass of the loops raises, which ends the call
DecodeRaises(outs, w, h) ==
    \E i \in 1..3 :
        LET fw    == feature_width(w, strides[i])
            fh    == feature_height(h, strides[i])
            cells == LoopCells(fh, fw)
        IN  \E k \in 1..Len(cells) : CellRaises(outs, i, cells[k], fw)

\* The list decode_proposals returns
DecodeList(outs, w, h) ==
    DecodeStride(outs, 1, w, h) \o DecodeStride(outs, 2, w, h)
        \o DecodeStride(outs, 3, w, h)

\* main, line 118: proposals = decode_proposals(outputs, width, height).  An
\* exception ends the program; an empty list makes main return at line 119;
\* otherwise nms is called on the list.
Decode ==
    /\ pc = "decode"
    /\ IF DecodeRaises(outputs, img_width, img_height)
       THEN /\ raised' = "IndexError"
            /\ pc' = "crashed"
            /\ UNCHANGED proposals
       ELSE /\ proposals' = DecodeList(outputs, img_width, img_height)
            /\ pc' = IF proposals' = <<>> THEN "done" ELSE "nms"
            /\ UNCHANGED raised
    /\ UNCHANGED <<NMS_THRESHOLD, order, keep_indices, final_faces, argsorted, first>>
    /\ UNCHANGED lbVars /\ UNCHANGED decVars

\* ------------------------------------------------------------------------
\* Inputs of decode_proposals
\* ------------------------------------------------------------------------
\* Canvases <<width, height>>: one whose grids differ in width and height at
\* stride 8, one smaller than every stride but the first, and the 640 x 640
\* canvas of TARGET_SHAPE.
CanvasSet == { <<17, 9>>, <<8, 8>>, <<640, 640>> }

\* Rows of a tensor of stride i that fits the canvas: two per grid cell
GridSize(n, stride) == IF n % stride = 0 THEN n \div stride ELSE (n \div stride) + 1

FittingRows(i, cv) == GridSize(cv[2], strides[i]) * GridSize(cv[1], strides[i]) * 2

\* Every score is 0.1 but for at most MaxHot entries
\* <<stride index, row>> (one less when a tensor does not fit), which hold a
\* score of HotScores: below, at and above the confidence threshold.  On the large canvas a single entry may
\* differ, one of a few; row 1620 of stride 8 is cell (10, 10), anchor 0.
HotScores == {4, 5, 9}

HotPositions(cv) ==
    IF cv = <<640, 640>>
    THEN { <<1, 1620>>, <<1, 1621>>, <<3, 799>> }
    ELSE UNION { { <<i, r>> : r \in 0..(FittingRows(i, cv) - 1) } : i \in 1..3 }

HotChoices(cv, mis) ==
    LET most == IF cv = <<640, 640>> THEN 1
                ELSE IF mis = <<0, 0>> THEN MaxHot ELSE MaxHot - 1
    IN  UNION { [P -> HotScores] :
                P \in { Q \in SUBSET HotPositions(cv) : Cardinality(Q) <= most } }

\* The box distances and landmark offsets of a row: different from row to
\* row, or (5, 5, 5, 5) in every row
BoxRow(i, r, uniform) ==
    IF uniform THEN <<5, 5, 5, 5>> ELSE <<1 + (r % 3), i, 2, r % 2>>

KpsRow(i, r) == [c \in 1..10 |-> ((r + c + i) % 3) - 1]

\* A tensor set fits the canvas, or one of its nine tensors (mis[1]) has one
\* row less or more (mis[2]) than fits.
Mismatches == { <<0, 0>> } \cup { <<j, d>> : j \in 1..9, d \in {-1, 1} }

TensorRows(j, cv, mis) ==
    FittingRows(((j - 1) % 3) + 1, cv) + (IF mis[1] = j THEN mis[2] ELSE 0)

RawOutputs(cv, hot, uniform, mis) ==
    [j \in 1..9 |->
        LET i == ((j - 1) % 3) + 1
        IN  [r \in 0..(TensorRows(j, cv, mis) - 1) |->
                IF j <= 3 THEN (IF <<i, r>> \in DOMAIN hot THEN hot[<<i, r>>]
                                ELSE 1)
                ELSE IF j <= 6 THEN BoxRow(i, r, uniform)
                ELSE KpsRow(i, r)]]

InitDecode ==
    /\ pc = "decode"
    /\ raised = None
    /\ img = None /\ target = None /\ canvas = None /\ ratio = None
    /\ new_size = None
    /\ \E cv \in CanvasSet :
         /\ img_width = cv[1]
         /\ img_height = cv[2]
         /\ \E uniform \in BOOLEAN, mis \in Mismatches :
              /\ cv = <<640, 640>> => mis = <<0, 0>>
              /\ cv # <<640, 640>> => ~uniform
              /\ \E hot \in HotChoices(cv, mis) :
                   outputs = RawOutputs(cv, hot, uniform, mis)
    /\ proposals = <<>>
    /\ NMS_THRESHOLD = DefaultNmsThreshold
    /\ order = <<>>
    /\ keep_indices = <<>>
    /\ argsorted = <<>>
    /\ final_faces = None
    /\ first = <<>>

NextDecode == Decode \/ NmsEnter \/ NmsStep \/ NmsReturn

SpecDecode == InitDecode /\ [][NextDecode]_vars

\* ------------------------------------------------------------------------
\* Properties of nms
\* ------------------------------------------------------------------------
\* Intersection-over-Union as section 4.3 of the specification defines it,
\* compared with a threshold t = <<num, den>>: the IoU of two boxes whose
\* union area is 0 is 0.
IoUArea(b) == (b[3] - b[1]) * (b[4] - b[2])

IoUInter(a, b) ==
    LET w == Min(a[3], b[3]) - Max(a[1], b[1])
        h == Min(a[4], b[4]) - Max(a[2], b[2])
    IN  (IF w > 0 THEN w ELSE 0) * (IF h > 0 THEN h ELSE 0)

IoUUnion(a, b) == IoUArea(a) + IoUArea(b) - IoUInter(a, b)

IoUExceeds(a, b, t) ==
    LET i == IoUInter(a, b)
        u == IoUUnion(a, b)
    IN  /\ u # 0
        /\ IF u > 0 THEN i * t[2] > t[1] * u ELSE i * t[2] < t[1] * u

Returned == pc = "returned"

\* the call that returned is a second call, on the list the first returned
OnOutputCall ==
    /\ first # <<>>
    /\ first[1].threshold = NMS_THRESHOLD
    /\ proposals = first[1].final_faces

\* the call that returned is a second call, on the same list with a higher
\* threshold
RaisedCall ==
    /\ first # <<>>
    /\ first[1].threshold # NMS_THRESHOLD
    /\ proposals = first[1].proposals

Range(s) == { s[k] : k \in 1..Len(s) }

\* C1: after nms returns on a non-empty list, no two distinct kept proposals
\* have an IoU above NMS_THRESHOLD.
C1_NoKeptPairOverlaps ==
    (Returned /\ proposals # <<>>) =>
        \A a, b \in 1..Len(final_faces) :
            a # b => ~IoUExceeds(final_faces[a].bbox, final_faces[b].bbox, NMS_THRESHOLD)

\* a call returned two or more proposals, after having removed one
C1_Witness ==
    /\ Returned
    /\ Len(final_faces) >= 2
    /\ Len(final_faces) < Len(proposals)
    /\ NMS_THRESHOLD = DefaultNmsThreshold

\* C2: nms processes the proposals by descending score, and of two proposals
\* with equal scores the one with the smaller original index comes first.
C2_TiesByAscendingIndex ==
    (pc = "loop") =>
        \A p, q \in 1..Len(argsorted) :
            p < q =>
                \/ proposals[argsorted[p]].score > proposals[argsorted[q]].score
                \/ /\ proposals[argsorted[p]].score = proposals[argsorted[q]].score
                   /\ argsorted[p] < argsorted[q]

\* C3, as claimed: a call with a higher threshold keeps at least as many
\* proposals of the same list as the call with the lower threshold.
C3_Monotone ==
    (Returned /\ RaisedCall) =>
        Len(final_faces) >= Len(first[1].final_faces)

\* C3, amended: the same, for lists of at most three proposals.
C3_MonotoneUpToThree ==
    (Returned /\ RaisedCall /\ Len(proposals) <= 3) =>
        Len(final_faces) >= Len(first[1].final_faces)

\* a list of three proposals of which the higher threshold keeps more
C3_Witness ==
    /\ Returned
    /\ RaisedCall
    /\ Len(proposals) = 3
    /\ Len(final_faces) > Len(first[1].final_faces)

\* C4: nms on the list it returned, with the same threshold, returns the same
\* proposals, none removed.
C4_Idempotent ==
    (Returned /\ OnOutputCall) =>
        /\ Range(final_faces) = Range(proposals)
        /\ Len(final_faces) = Len(proposals)

\* the second call ran on two or more proposals left by a first call that
\* removed some
C4_Witness ==
    /\ Returned
    /\ OnOutputCall
    /\ Len(proposals) >= 2
    /\ Len(first[1].final_faces) < Len(first[1].proposals)

\* C5: a remaining proposal whose union area with the box just kept is 0 is
\* not removed by it, whatever the threshold >= 0.
C5_ZeroUnionSurvives ==
    [][ (pc = "loop" /\ order # <<>> /\ keep_indices' = Append(keep_indices, order[1])) =>
          \A k \in 2..Len(order) :
              IoUUnion(proposals[order[1]].bbox, proposals[order[k]].bbox) = 0
                  => \E m \in 1..Len(order') : order'[m] = order[k] ]_vars

\* ------------------------------------------------------------------------
\* Properties of decode_proposals
\* ------------------------------------------------------------------------
\* decode_proposals has returned its list
Decoded == pc \in {"nms", "loop", "returned", "done"}

\* the score at row idx of stride i is at or above the confidence threshold
Passes(i, idx) == outputs[i][idx] >= CONF_THRESHOLD

\* The place of entry (i, idx) among the passing entries, strides in turn and
\* rows in turn within a stride
Rank(i, idx) ==
    Cardinality({ e \in UNION { { <<i2, r>> : r \in 0..(FittingRows(i2, <<img_width, img_height>>) - 1) }
                                : i2 \in 1..i } :
                    /\ Passes(e[1], e[2])
                    /\ (e[1] < i \/ e[2] <= idx) })

PassingCount ==
    Cardinality({ e \in UNION { { <<i, r>> : r \in 0..(FittingRows(i, <<img_width, img_height>>) - 1) }
                                : i \in 1..3 } : Passes(e[1], e[2]) })

\* C6: the entry of stride s, cell (x, y), anchor a, when its score passes,
\* is decoded from the distances at idx = y*fw*2 + x*2 + a to the box
\* (cx - l*s, cy - t*s, cx + r*s, cy + b*s), cx = (x+0.5)*s, cy = (y+0.5)*s.
C6_BoxDecoding ==
    Decoded =>
        \A i \in 1..3 :
            LET s  == strides[i]
                fw == GridSize(img_width, s)
                fh == GridSize(img_height, s)
            IN  \A y \in 0..(fh - 1), x \in 0..(fw - 1), a \in 0..1 :
                    LET idx == y * fw * 2 + x * 2 + a
                        d   == outputs[i + 3][idx]
                        cx  == x * s + (s \div 2)
                        cy  == y * s + (s \div 2)
                    IN  Passes(i, idx) =>
                            proposals[Rank(i, idx)].bbox =
                                <<cx - d[1] * s, cy - d[2] * s, cx + d[3] * s, cy + d[4] * s>>

\* a proposal was decoded from a cell below the first row of a grid that is
\* wider than high
C6_Witness ==
    /\ Decoded
    /\ img_width = 17
    /\ \E idx \in 6..11 : Passes(1, idx)

\* The scenario of C7: a 640 x 640 canvas whose only passing entry is that of
\* stride 8, cell (10, 10), anchor 0, with score 0.9 and distances (5,5,5,5)
C7_Scenario ==
    /\ img_width = 640 /\ img_height = 640
    /\ outputs[1][1620] = 9
    /\ outputs[4][1620] = <<5, 5, 5, 5>>
    /\ \A i \in 1..3 : \A r \in DOMAIN outputs[i] :
           (i # 1 \/ r # 1620) => outputs[i][r] < CONF_THRESHOLD

\* C7, as claimed: the entry is decoded to the box (79, 79, 89, 89), survives
\* the confidence filter, and nms returns it unchanged.
C7_EndToEnd ==
    (C7_Scenario /\ Decoded) =>
        /\ Len(proposals) = 1
        /\ proposals[1].bbox = <<79, 79, 89, 89>>
        /\ proposals[1].score = 9
        /\ Returned => final_faces = proposals

\* C7, amended: the box is (44, 44, 124, 124), of centre (84, 84).
C7_EndToEndScaled ==
    (C7_Scenario /\ Decoded) =>
        /\ Len(proposals) = 1
        /\ proposals[1].bbox = <<44, 44, 124, 124>>
        /\ (proposals[1].bbox[1] + proposals[1].bbox[3]) = 2 * 84
        /\ (proposals[1].bbox[2] + proposals[1].bbox[4]) = 2 * 84
        /\ proposals[1].score = 9
        /\ Returned => final_faces = proposals

\* the scenario has run to the return of nms
C7_Witness == C7_Scenario /\ Returned

\* C8: the list holds one proposal for every entry whose score is at or
\* above the threshold and none for any other, strides in turn, rows in turn
\* within a stride, whatever the scores.
C8_FilteredInInsertionOrder ==
    Decoded =>
        /\ Len(proposals) = PassingCount
        /\ \A i \in 1..3 :
               \A r \in 0..(FittingRows(i, <<img_width, img_height>>) - 1) :
                   Passes(i, r) => proposals[Rank(i, r)].score = outputs[i][r]

\* two proposals were decoded from different strides, the first with the
\* lower score, a score at the threshold, while other entries stayed below it
C8_Witness ==
    /\ Decoded
    /\ Len(proposals) = 2
    /\ proposals[1].score = CONF_THRESHOLD
    /\ proposals[2].score > CONF_THRESHOLD
    /\ \E r \in DOMAIN outputs[1] : outputs[1][r] = CONF_THRESHOLD
    /\ \E r \in DOMAIN outputs[3] : outputs[3][r] > CONF_THRESHOLD
    /\ \E r \in DOMAIN outputs[2] : outputs[2][r] < CONF_THRESHOLD

\* one of the nine tensors has more or fewer rows than fit the canvas
Mismatched ==
    \E j \in 1..9 :
        Cardinality(DOMAIN outputs[j])
            # FittingRows(((j - 1) % 3) + 1, <<img_width, img_height>>)

\* C9: when a tensor's element count is not the one that fits, decoding fails
\* and emits no proposals.
C9_MismatchFails ==
    (Mismatched /\ pc # "decode") => (pc = "crashed" /\ proposals = <<>>)

\* ------------------------------------------------------------------------
\* Properties of preprocess_image_topleft
\* ------------------------------------------------------------------------
\* C10: for an image and a target of positive height and width the call
\* succeeds; the canvas has the target's dimensions, the ratio is
\* min(target_width / image_width, target_height / image_height), and the
\* scaled region is a size of at least 1 x 1 that fits the canvas.
C10_LetterboxSucceeds ==
    (pc # "preprocess") =>
        /\ raised = None
        /\ DOMAIN canvas = (0..(target[1] - 1)) \X (0..(target[2] - 1))
        /\ ratio[1] * img[2] * img[1] =
               ratio[2] * Min(target[2] * img[1], target[1] * img[2])
        /\ new_size[1] >= 1 /\ new_size[1] <= target[2]
        /\ new_size[2] >= 1 /\ new_size[2] <= target[1]

====
